---- MODULE Spec2Model ----
(***************************************************************************)
(* Notes API of NoteAppTurboBackend: the note repository                   *)
(* (app/db/repositories.py) over a Firestore collection, driven by the     *)
(* HTTP handlers of app/api/v1/notes.py.  Each request runs in its own     *)
(* slot; every Firestore call (get, set, update, delete) and every clock   *)
(* read is one atomic step, and steps of different requests interleave     *)
(* freely, as they do between worker threads of the server.                *)
(*                                                                         *)
(* Firestore calls succeed except in SpecFail: get of a missing document   *)
(* gives a snapshot with exists = False, update of a missing document      *)
(* raises NotFound (google.api_core), delete of a missing document is a    *)
(* no-op, set creates the document.  The wall clock is non-decreasing.     *)
(*                                                                         *)
(* Six specifications drive the same actions with different request        *)
(* loads.  Spec has callers of both users on every note id with one body   *)
(* per endpoint that names a note and create, at one instant of the        *)
(* clock.  SpecShared has GET /notes of both users, and of callers         *)
(* without bearer credentials, against create, pin and delete.             *)
(* SpecFields has one user and one note with every combination of omitted  *)
(* and provided fields, and a clock that advances.  SpecList runs          *)
(* GET /notes over every collection of up to MaxListed documents with      *)
(* every page, size, sort, filter and search.  SpecCreate runs create      *)
(* against pin and delete with a clock that advances.  SpecFail adds       *)
(* Firestore calls that raise.                                             *)
(***************************************************************************)
EXTENDS Integers, Sequences, FiniteSets, TLC

\* ------------------------------------------------------------------ bounds
MaxNotes == 2
MaxClock == 2
MaxListed == 3

\* -------------------------------------------------------------- value sets
Users == {"u1", "u2"}
NoteIds == 1..MaxNotes
\* two requests are in flight at a time
Reqs == {1, 2}
\* strings are sequences of characters; <<>> is the empty string
\* a note is created as "S" / "n"; an update may put the empty string in
\* the title and "new" in the content
NewTitles == {<<"S">>}
NewContents == {<<"n">>}
UpdTitles == {<<>>}
UpdContents == {<<"n", "e", "w">>}

\* Python None for a dict value / an Optional result
None == [none |-> TRUE]
\* data.get("updated_at") of a snapshot without data
NullTime == -1
\* data.get("owner_id") of a snapshot without data
NullOwner == "None"

\* NoteUpdate: each of title, content, pinned is optional; an omitted (None)
\* field is a key that is not in the record
NoteUpdate ==
    {[title |-> t, content |-> c, pinned |-> p] : t \in UpdTitles, c \in UpdContents, p \in BOOLEAN}
    \cup {[title |-> t, content |-> c] : t \in UpdTitles, c \in UpdContents}
    \cup {[title |-> t, pinned |-> p] : t \in UpdTitles, p \in BOOLEAN}
    \cup {[content |-> c, pinned |-> p] : c \in UpdContents, p \in BOOLEAN}
    \cup {[title |-> t] : t \in UpdTitles}
    \cup {[content |-> c] : c \in UpdContents}
    \cup {[pinned |-> p] : p \in BOOLEAN}
    \cup {<<>>}

\* NoteIn: title and content are required, pinned defaults to False
NoteIn ==
    {[title |-> t, content |-> c, pinned |-> p] : t \in NewTitles, c \in NewContents, p \in BOOLEAN}
    \cup {[title |-> t, content |-> c] : t \in NewTitles, c \in NewContents}

NoteIn_pinned(b) == IF "pinned" \in DOMAIN b THEN b.pinned ELSE FALSE

\* ------------------------------------------------------------------- state
VARIABLES
    store,    \* the notes collection: document id -> document data
    nextId,   \* the next auto-generated document id
    clock,    \* datetime.now(timezone.utc)
    pc,       \* per request: position in its handler
    op,       \* per request: the endpoint
    caller,   \* per request: current_user_id
    nid,      \* per request: note_id
    body,     \* per request: the request body / query parameters
    updates,  \* per request: the repository's local `updates` / `data`
    resp,     \* per request: the HTTP response
    auth,     \* per request: the Authorization header
    dirty     \* history: another request wrote this request's note since
              \* this request last read the clock or wrote the store

vars == <<store, nextId, clock, pc, op, caller, nid, body, updates, resp, auth, dirty>>
reqvars == <<pc, op, caller, nid, body, updates, resp, auth, dirty>>

\* the handler's local `owned` is read by `if not owned` alone: pc = "owned"
\* records that it was a note

\* ------------------------------------------------------------ pure helpers
Exists(st, id) == id \in DOMAIN st

\* a conversion that reads the title for the content
doc_to_noteout_mixed(st, id) ==
    IF Exists(st, id)
    THEN [id |-> id,
          title |-> st[id].title,
          content |-> st[id].title,
          pinned |-> st[id].pinned,
          updated_at |-> st[id].updated_at,
          owner_id |-> st[id].owner_id]
    ELSE [id |-> id,
          title |-> <<>>,
          content |-> <<>>,
          pinned |-> FALSE,
          updated_at |-> NullTime,
          owner_id |-> NullOwner]

doc_to_noteout(st, id) ==
    IF Exists(st, id)
    THEN [id |-> id,
          title |-> st[id].title,
          content |-> st[id].content,
          pinned |-> st[id].pinned,
          updated_at |-> st[id].updated_at,
          owner_id |-> st[id].owner_id]
    ELSE [id |-> id,
          title |-> <<>>,
          content |-> <<>>,
          pinned |-> FALSE,
          updated_at |-> NullTime,
          owner_id |-> NullOwner]

\* get_owned without the owner comparison
get_owned_any_owner(st, note_id, owner_id) ==
    IF ~Exists(st, note_id) THEN None ELSE doc_to_noteout(st, note_id)

get_owned(st, note_id, owner_id) ==
    IF ~Exists(st, note_id)
    THEN None
    ELSE IF doc_to_noteout(st, note_id).owner_id = owner_id
         THEN doc_to_noteout(st, note_id)
         ELSE None

\* a merge that keeps the stored value of a field the document already has
firestore_update_keep_old(doc, upd) ==
    [k \in DOMAIN doc \cup DOMAIN upd |-> IF k \in DOMAIN doc THEN doc[k] ELSE upd[k]]

\* DocumentReference.update(updates): the given fields replace the stored
\* ones, every other field is kept
firestore_update(doc, upd) ==
    [k \in DOMAIN doc \cup DOMAIN upd |-> IF k \in DOMAIN upd THEN upd[k] ELSE doc[k]]

\* a delete that blanks the note and keeps the document
firestore_delete_blank(st, id) ==
    [m \in DOMAIN st |-> IF m = id THEN [st[m] EXCEPT !.content = <<>>] ELSE st[m]]

\* DocumentReference.delete()
firestore_delete(st, id) == [m \in DOMAIN st \ {id} |-> st[m]]

\* DocumentReference.set(data)
firestore_set(st, id, data) == [m \in DOMAIN st \cup {id} |-> IF m = id THEN data ELSE st[m]]

\* update with `if title:` for `if title is not None:`: an empty string or
\* False counts as omitted
update_dict_truthy(b, now) ==
    [k \in {f \in DOMAIN b : IF f = "pinned" THEN b[f] ELSE b[f] # <<>>} \cup {"updated_at"} |->
        IF k = "updated_at" THEN now ELSE b[k]]

\* update with a timestamp taken once, when the module was loaded
update_dict_import_time(b, now) ==
    [k \in DOMAIN b \cup {"updated_at"} |-> IF k = "updated_at" THEN 1 ELSE b[k]]

\* the `updates` dict of NoteRepository.update
update_dict(b, now) == firestore_update(b, [updated_at |-> now])

\* toggle_pin that refreshes updated_at as update does
toggle_pin_dict_bump(p) == [pinned |-> p, updated_at |-> clock]

\* the `updates` dict of NoteRepository.toggle_pin
toggle_pin_dict(p) == [pinned |-> p]

\* create that stamps a fixed user for the caller
create_dict_fixed_owner(owner_id, b, now) ==
    [title |-> b.title,
     content |-> b.content,
     pinned |-> IF "pinned" \in DOMAIN b THEN b.pinned ELSE FALSE,
     updated_at |-> now,
     owner_id |-> "u1"]

\* create that pins a note when the request omits pinned
create_dict_pinned_by_default(owner_id, b, now) ==
    [title |-> b.title,
     content |-> b.content,
     pinned |-> IF "pinned" \in DOMAIN b THEN b.pinned ELSE TRUE,
     updated_at |-> now,
     owner_id |-> owner_id]

\* the `data` dict of NoteRepository.create
create_dict(owner_id, b, now) ==
    [title |-> b.title,
     content |-> b.content,
     pinned |-> NoteIn_pinned(b),
     updated_at |-> now,
     owner_id |-> owner_id]

\* -------------------------------------------------------------- list_notes
SORT_UPDATED_AT_DESC == "updated_at_desc"
SORT_UPDATED_AT_ASC == "updated_at_asc"
SORT_PINNED_DESC == "pinned_desc"

\* the epoch, datetime(1970, 1, 1); the clock starts after it
DEFAULT_DATETIME == 0

DEFAULT_PAGE == 1
DEFAULT_PAGE_SIZE == 20
MAX_PAGE_SIZE == 100

\* str.lower() of one character
lower_char(c) ==
    CASE c = "S" -> "s"
      [] c = "N" -> "n"
      [] c = "E" -> "e"
      [] c = "W" -> "w"
      [] OTHER -> c

\* str.lower()
lower(s) == [i \in 1..Len(s) |-> lower_char(s[i])]

\* `sub in s` of two strings
RECURSIVE str_contains(_, _)
str_contains(sub, s) ==
    IF Len(sub) > Len(s) THEN FALSE
    ELSE IF SubSeq(s, 1, Len(sub)) = sub THEN TRUE
    ELSE str_contains(sub, Tail(s))

\* the ids of a query result, as stream() gives them: by document id
RECURSIVE ascending(_)
ascending(S) ==
    IF S = {} THEN <<>>
    ELSE LET m == CHOOSE x \in S : \A y \in S : x <= y
         IN <<m>> \o ascending(S \ {m})

\* a query without the owner_id filter
query_stream_all_owners(st, owner_id, q) ==
    LET ids == ascending({n \in DOMAIN st : "pinned" \in DOMAIN q => st[n].pinned = q.pinned})
    IN [i \in 1..Len(ids) |-> doc_to_noteout(st, ids[i])]

\* col.where("owner_id", "==", owner_id), .where("pinned", "==", pinned)
\* when pinned is given, stream(), and _doc_to_noteout of each document
query_stream(st, owner_id, q) ==
    LET ids == ascending({n \in DOMAIN st :
                   /\ st[n].owner_id = owner_id
                   /\ ("pinned" \in DOMAIN q => st[n].pinned = q.pinned)})
    IN [i \in 1..Len(ids) |-> doc_to_noteout(st, ids[i])]

\* a search filter that compares the strings as they are
search_items_exact_case(items, q) ==
    IF "search" \in DOMAIN q /\ q.search # <<>>
    THEN SelectSeq(items, LAMBDA it :
             \/ str_contains(q.search, it.title)
             \/ str_contains(q.search, it.content))
    ELSE items

\* the in-memory search filter: `if search:` skips None and ""
search_items(items, q) ==
    IF "search" \in DOMAIN q /\ q.search # <<>>
    THEN SelectSeq(items, LAMBDA it :
             \/ str_contains(lower(q.search), lower(it.title))
             \/ str_contains(lower(q.search), lower(it.content)))
    ELSE items

\* a sort key that takes a note without updated_at as the newest
sort_time_newest(it) == IF it.updated_at = NullTime THEN MaxClock + 1 ELSE it.updated_at

\* it.get("updated_at") or DEFAULT_DATETIME
sort_time(it) == IF it.updated_at = NullTime THEN DEFAULT_DATETIME ELSE it.updated_at

\* a pinned_desc key without the pinned flag
sorts_before_time_only(sort, x, y) ==
    IF sort = SORT_UPDATED_AT_ASC
    THEN sort_time(x) < sort_time(y)
    ELSE sort_time(x) > sort_time(y)

\* a sort that takes updated_at_asc for the default order
sorts_before_newest_first(sort, x, y) ==
    IF sort = SORT_PINNED_DESC
    THEN LET px == IF x.pinned THEN 0 ELSE 1
             py == IF y.pinned THEN 0 ELSE 1
         IN px < py \/ (px = py /\ -sort_time(x) < -sort_time(y))
    ELSE sort_time(x) > sort_time(y)

\* the sort key of x is less than that of y (greater, under reverse=True)
sorts_before(sort, x, y) ==
    IF sort = SORT_UPDATED_AT_ASC
    THEN sort_time(x) < sort_time(y)
    ELSE IF sort = SORT_PINNED_DESC
    THEN LET px == IF x.pinned THEN 0 ELSE 1
             py == IF y.pinned THEN 0 ELSE 1
         IN px < py \/ (px = py /\ -sort_time(x) < -sort_time(y))
    ELSE sort_time(x) > sort_time(y)

\* list.sort is stable: x goes behind every item it does not sort before
RECURSIVE insert_sorted(_, _, _)
insert_sorted(sort, x, s) ==
    IF s = <<>> THEN <<x>>
    ELSE IF sorts_before(sort, x, Head(s)) THEN <<x>> \o s
    ELSE <<Head(s)>> \o insert_sorted(sort, x, Tail(s))

\* items.sort(key=...)
RECURSIVE sort_items(_, _)
sort_items(sort, items) ==
    IF items = <<>> THEN <<>>
    ELSE insert_sorted(sort, items[Len(items)],
                       sort_items(sort, SubSeq(items, 1, Len(items) - 1)))

\* one bound of a Python slice of a list of length len
slice_index(i, len) ==
    IF i < 0 THEN (IF len + i < 0 THEN 0 ELSE len + i)
    ELSE IF i > len THEN len ELSE i

\* a slice that takes the item at `end` too
py_slice_through_end(items, start, end) ==
    SubSeq(items, slice_index(start, Len(items)) + 1, slice_index(end + 1, Len(items)))

\* items[start:end]
py_slice(items, start, end) ==
    SubSeq(items, slice_index(start, Len(items)) + 1, slice_index(end, Len(items)))

\* the filtered and sorted items of list_notes, before pagination
list_sorted(st, owner_id, q) ==
    sort_items(q.sort, search_items(query_stream(st, owner_id, q), q))

\* list_notes that counts the page for the total
list_notes_total_of_page(st, owner_id, q) ==
    LET items == list_sorted(st, owner_id, q)
        start == (q.page - 1) * q.page_size
        end == start + q.page_size
    IN [items |-> py_slice(items, start, end), total |-> Len(py_slice(items, start, end))]

\* NoteRepository.list_notes: (items, total)
list_notes(st, owner_id, q) ==
    LET items == list_sorted(st, owner_id, q)
        start == (q.page - 1) * q.page_size
        end == start + q.page_size
    IN [items |-> py_slice(items, start, end), total |-> Len(items)]

\* ----------------------------------------------------------- authentication
\* an Authorization header "<scheme> <token>"; None when the request has none
Header(scheme, token) == [scheme |-> scheme, token |-> token]

\* the header a signed-in user sends
HeaderOf(u) == IF u = "u1" THEN Header("Bearer", "t-u1") ELSE Header("bearer", "t-u2")

\* str.lower() of an authorization scheme
scheme_lower(x) ==
    CASE x = "Bearer" -> "bearer"
      [] x = "Basic" -> "basic"
      [] OTHER -> x

\* HTTPBearer(auto_error=False): the credentials of the header; None when
\* the header, its scheme or its token is missing or the scheme is not bearer
http_bearer(h) ==
    IF h = None THEN None
    ELSE IF h.scheme = "" \/ h.token = "" THEN None
    ELSE IF scheme_lower(h.scheme) # "bearer" THEN None
    ELSE h

\* fb_auth.verify_id_token: the decoded token; None when it raises
verify_id_token(token) ==
    CASE token = "t-u1" -> [uid |-> "u1"]
      [] token = "t-u2" -> [uid |-> "u2"]
      [] token = "t-anon" -> [uid |-> ""]
      [] OTHER -> None

\* UnauthorizedError through api_exception_handler
UnauthorizedError == [status |-> 401, code |-> "unauthorized", note |-> None]

\* get_current_user_id that reads the token of any scheme
get_current_user_id_any_scheme(h) ==
    IF h = None THEN UnauthorizedError
    ELSE IF verify_id_token(h.token) = None THEN UnauthorizedError
    ELSE IF verify_id_token(h.token).uid = "" THEN UnauthorizedError
    ELSE [uid |-> verify_id_token(h.token).uid]

\* get_current_user_id: the uid of the caller, or the UnauthorizedError raised
get_current_user_id(h) ==
    IF http_bearer(h) = None THEN UnauthorizedError
    ELSE IF scheme_lower(http_bearer(h).scheme) # "bearer" THEN UnauthorizedError
    ELSE IF verify_id_token(http_bearer(h).token) = None THEN UnauthorizedError
    ELSE IF verify_id_token(http_bearer(h).token).uid = "" THEN UnauthorizedError
    ELSE [uid |-> verify_id_token(http_bearer(h).token).uid]

\* ---------------------------------------------------------------- responses
NoResp == [status |-> 0, code |-> "", note |-> None]

\* NotFoundError(resource="Note") through api_exception_handler
NotFoundError == [status |-> 404, code |-> "not_found", note |-> None]

\* any other exception through general_exception_handler
InternalServerError == [status |-> 500, code |-> "internal_server_error", note |-> None]

\* NoteOut(id, title, content, pinned, updated_at): updated_at must be a
\* datetime, so a note without one fails validation inside the handler
NoteOut(n, status) ==
    IF n.updated_at = NullTime
    THEN InternalServerError
    ELSE [status |-> status,
          code |-> "",
          note |-> [id |-> n.id, title |-> n.title, content |-> n.content,
                    pinned |-> n.pinned, updated_at |-> n.updated_at]]

NoContent == [status |-> 204, code |-> "", note |-> None]

\* FastAPI's answer to a query parameter outside its Query(...) constraints
RequestValidationError == [status |-> 422, code |-> "", note |-> None]

\* the body of GET /notes: a NoteOut of each item (an item without
\* updated_at fails validation inside the handler), total, page, page_size
PaginatedNotes(res, q) ==
    IF \E i \in 1..Len(res.items) : res.items[i].updated_at = NullTime
    THEN InternalServerError
    ELSE [status |-> 200,
          code |-> "",
          note |-> [items |-> [i \in 1..Len(res.items) |-> NoteOut(res.items[i], 200).note],
                    total |-> res.total,
                    page |-> q.page,
                    page_size |-> q.page_size]]

\* ------------------------------------------------------------- request loads
\* Authorization headers sent, note ids named and created, and the bodies and
\* query strings sent
LoadOwners ==
    [auths |-> {HeaderOf(u) : u \in Users} \cup {None},
     ids |-> NoteIds,
     new |-> {[title |-> <<"S">>, content |-> <<"n">>]},
     upd |-> {[title |-> <<>>]},
     pins |-> {TRUE},
     lists |-> {[page |-> DEFAULT_PAGE, page_size |-> DEFAULT_PAGE_SIZE, sort |-> SORT_UPDATED_AT_DESC],
                [pinned |-> TRUE, page |-> DEFAULT_PAGE, page_size |-> DEFAULT_PAGE_SIZE,
                 sort |-> SORT_PINNED_DESC]}]

LoadFields ==
    [auths |-> {HeaderOf("u1"), None},
     ids |-> {1},
     new |-> NoteIn,
     upd |-> NoteUpdate,
     pins |-> BOOLEAN,
     lists |-> {[page |-> DEFAULT_PAGE, page_size |-> DEFAULT_PAGE_SIZE, sort |-> SORT_UPDATED_AT_DESC]}]

\* ----------------------------------------------------------------- initial
Init ==
    /\ store = <<>>
    /\ nextId = 1
    /\ clock = 1
    /\ pc = [r \in Reqs |-> "idle"]
    /\ op = [r \in Reqs |-> "none"]
    /\ caller = [r \in Reqs |-> "none"]
    /\ nid = [r \in Reqs |-> 0]
    /\ body = [r \in Reqs |-> <<>>]
    /\ updates = [r \in Reqs |-> <<>>]
    /\ resp = [r \in Reqs |-> NoResp]
    /\ auth = [r \in Reqs |-> None]
    /\ dirty = [r \in Reqs |-> FALSE]

\* ------------------------------------------------------------------ actions
\* time passes
Tick ==
    /\ clock < MaxClock
    /\ clock' = clock + 1
    /\ UNCHANGED <<store, nextId, reqvars>>

\* request r wrote note n (wrote = TRUE) or read the clock: r is clean, and
\* a write makes every other request between its clock read and its
\* read-back of n dirty
Touched(r, n, wrote) ==
    [q \in Reqs |->
        IF q = r THEN FALSE
        ELSE IF wrote /\ nid[q] = n /\ pc[q] \in {"stamped", "written"} THEN TRUE
        ELSE dirty[q]]

\* the handler ends: the response is kept, the locals are gone
Finish(r, response) ==
    /\ pc' = [pc EXCEPT ![r] = "done"]
    /\ resp' = [resp EXCEPT ![r] = response]
    /\ body' = [body EXCEPT ![r] = <<>>]
    /\ updates' = [updates EXCEPT ![r] = <<>>]

\* a handler that tells a foreign note from a missing one
Outcome_forbidden(st, n, u) ==
    IF get_owned(st, n, u) # None THEN NoResp
    ELSE IF Exists(st, n) THEN [status |-> 403, code |-> "forbidden", note |-> None]
    ELSE NotFoundError

\* a handler that checks existence and not ownership
Outcome_exists(st, n, u) ==
    IF Exists(st, n) THEN NoResp ELSE NotFoundError

\* `owned = repo.get_owned(note_id, current_user_id)`, `if not owned: raise
\* NotFoundError(resource="Note")`: the response raised, NoResp when the
\* handler goes on
Outcome(st, n, u) ==
    IF get_owned(st, n, u) = None THEN NotFoundError ELSE NoResp

\* Depends(get_current_user_id) gave the handler of request r a uid for
\* the header h
Authenticated(r, h) ==
    /\ get_current_user_id(h) # UnauthorizedError
    /\ auth' = [auth EXCEPT ![r] = h]

\* the endpoints of the notes router
Endpoints == {"list", "create", "update", "pin", "delete"}

\* Depends(get_current_user_id) raises UnauthorizedError: the handler is
\* not called
unauthorized(r, W) ==
    /\ pc[r] = "idle"
    /\ \E o \in Endpoints, h \in W.auths :
         /\ get_current_user_id(h) = UnauthorizedError
         /\ op' = [op EXCEPT ![r] = o]
         /\ auth' = [auth EXCEPT ![r] = h]
    /\ Finish(r, UnauthorizedError)
    /\ UNCHANGED <<store, nextId, clock, caller, nid, dirty>>

\* the ownership check that opens update_note, toggle_pin and delete_note
Check(r, o, u, n, b) ==
    /\ pc[r] = "idle"
    /\ op' = [op EXCEPT ![r] = o]
    /\ caller' = [caller EXCEPT ![r] = u]
    /\ nid' = [nid EXCEPT ![r] = n]
    /\ IF Outcome(store, n, u) # NoResp
       THEN /\ pc' = [pc EXCEPT ![r] = "done"]
            /\ resp' = [resp EXCEPT ![r] = Outcome(store, n, u)]
            /\ UNCHANGED body
       ELSE /\ pc' = [pc EXCEPT ![r] = "owned"]
            /\ body' = [body EXCEPT ![r] = b]
            /\ UNCHANGED resp
    /\ UNCHANGED <<store, nextId, clock, updates, dirty>>

\* PUT /notes/{note_id}: get_owned
update_note(r, W) ==
    /\ pc[r] = "idle"
    /\ \E h \in W.auths :
        /\ Authenticated(r, h)
        /\ \E u \in {get_current_user_id(h).uid}, n \in W.ids, b \in W.upd :
              Check(r, "update", u, n, b)

\* NoteRepository.update: build `updates`, reading the clock
update_now(r) ==
    /\ pc[r] = "owned" /\ op[r] = "update"
    /\ updates' = [updates EXCEPT ![r] = update_dict(body[r], clock)]
    /\ pc' = [pc EXCEPT ![r] = "stamped"]
    /\ dirty' = Touched(r, nid[r], FALSE)
    /\ UNCHANGED <<store, nextId, clock, op, caller, nid, body, resp, auth>>

\* a write through DocumentReference.set(updates, merge=True), which makes
\* the document when it is missing
WriteUpdate_merge(r, upd) ==
    /\ store' = firestore_set(store, nid[r],
                 firestore_update(IF Exists(store, nid[r]) THEN store[nid[r]]
                                  ELSE [title |-> <<>>, content |-> <<>>, pinned |-> FALSE,
                                        updated_at |-> NullTime, owner_id |-> caller[r]],
                                  upd))
    /\ pc' = [pc EXCEPT ![r] = "written"]
    /\ updates' = [updates EXCEPT ![r] = upd]
    /\ dirty' = Touched(r, nid[r], TRUE)
    /\ UNCHANGED <<resp, body>>

\* a write through DocumentReference.update: NotFound (an unhandled
\* exception) when the document is missing
WriteUpdate(r, upd) ==
    IF Exists(store, nid[r])
    THEN /\ store' = [store EXCEPT ![nid[r]] = firestore_update(@, upd)]
         /\ pc' = [pc EXCEPT ![r] = "written"]
         /\ updates' = [updates EXCEPT ![r] = upd]
         /\ dirty' = Touched(r, nid[r], TRUE)
         /\ UNCHANGED <<resp, body>>
    ELSE /\ Finish(r, InternalServerError)
         /\ UNCHANGED <<store, dirty>>

\* NoteRepository.update: the store write
update_write(r) ==
    /\ pc[r] = "stamped" /\ op[r] = "update"
    /\ WriteUpdate(r, updates[r])
    /\ UNCHANGED <<nextId, clock, op, caller, nid, auth>>

\* the read-back that ends update, toggle_pin and create, and the response
ReadBack(r, status) ==
    /\ pc[r] = "written"
    /\ Finish(r, NoteOut(doc_to_noteout(store, nid[r]), status))
    /\ dirty' = [dirty EXCEPT ![r] = FALSE]
    /\ UNCHANGED <<store, nextId, clock, op, caller, nid, auth>>

update_readback(r) == op[r] = "update" /\ ReadBack(r, 200)

\* PATCH /notes/{note_id}/pin: get_owned
toggle_pin(r, W) ==
    /\ pc[r] = "idle"
    /\ \E h \in W.auths :
        /\ Authenticated(r, h)
        /\ \E u \in {get_current_user_id(h).uid}, n \in W.ids, p \in W.pins :
              Check(r, "pin", u, n, [pinned |-> p])

\* a toggle_pin that flips the stored flag and ignores the value given
toggle_pin_write_flip(r) ==
    /\ pc[r] = "owned" /\ op[r] = "pin"
    /\ WriteUpdate(r, [pinned |-> IF Exists(store, nid[r]) THEN ~store[nid[r]].pinned
                                   ELSE body[r].pinned])
    /\ UNCHANGED <<nextId, clock, op, caller, nid, auth>>

\* NoteRepository.toggle_pin: the store write
toggle_pin_write(r) ==
    /\ pc[r] = "owned" /\ op[r] = "pin"
    /\ WriteUpdate(r, toggle_pin_dict(body[r].pinned))
    /\ UNCHANGED <<nextId, clock, op, caller, nid, auth>>

toggle_pin_readback(r) == op[r] = "pin" /\ ReadBack(r, 200)

\* DELETE /notes/{note_id}: get_owned
delete_note(r, W) ==
    /\ pc[r] = "idle"
    /\ \E h \in W.auths :
        /\ Authenticated(r, h)
        /\ \E u \in {get_current_user_id(h).uid}, n \in W.ids :
              Check(r, "delete", u, n, <<>>)

\* NoteRepository.delete and the 204 response
delete_write(r) ==
    /\ pc[r] = "owned" /\ op[r] = "delete"
    /\ store' = firestore_delete(store, nid[r])
    /\ Finish(r, NoContent)
    /\ dirty' = Touched(r, nid[r], Exists(store, nid[r]))
    /\ UNCHANGED <<nextId, clock, op, caller, nid, auth>>

\* POST /notes, NoteRepository.create: read the clock, take a fresh
\* document id, build `data`
create_note(r, W) ==
    /\ pc[r] = "idle"
    /\ nextId \in W.ids
    /\ \E h \in W.auths :
         /\ Authenticated(r, h)
         /\ \E u \in {get_current_user_id(h).uid}, b \in W.new :
               /\ op' = [op EXCEPT ![r] = "create"]
               /\ caller' = [caller EXCEPT ![r] = u]
               /\ body' = [body EXCEPT ![r] = b]
               /\ updates' = [updates EXCEPT ![r] = create_dict(u, b, clock)]
    /\ nid' = [nid EXCEPT ![r] = nextId]
    /\ nextId' = nextId + 1
    /\ pc' = [pc EXCEPT ![r] = "stamped"]
    /\ UNCHANGED <<store, clock, resp, dirty>>

\* NoteRepository.create: doc_ref.set(data)
create_set(r) ==
    /\ pc[r] = "stamped" /\ op[r] = "create"
    /\ store' = firestore_set(store, nid[r], updates[r])
    /\ pc' = [pc EXCEPT ![r] = "written"]
    /\ dirty' = Touched(r, nid[r], TRUE)
    /\ UNCHANGED <<nextId, clock, op, caller, nid, body, updates, resp, auth>>

create_readback(r) == op[r] = "create" /\ ReadBack(r, 201)

\* constraints without the pattern of sort
valid_list_query_any_sort(q) ==
    /\ q.page >= 1
    /\ q.page_size >= 1 /\ q.page_size <= MAX_PAGE_SIZE

\* the Query(...) constraints of GET /notes: page >= 1, 1 <= page_size <=
\* MAX_PAGE_SIZE, sort matching ^(updated_at_desc|updated_at_asc|pinned_desc)$
valid_list_query(q) ==
    /\ q.page >= 1
    /\ q.page_size >= 1 /\ q.page_size <= MAX_PAGE_SIZE
    /\ q.sort \in {"updated_at_desc", "updated_at_asc", "pinned_desc"}

\* GET /notes: the query parameters are validated (a rejected request keeps
\* its query string, and its handler is not called), then
\* repo.list_notes(owner_id=current_user_id, ...) reads the store
list_request(r, W) ==
    /\ pc[r] = "idle"
    /\ \E h \in W.auths :
         /\ Authenticated(r, h)
         /\ \E u \in {get_current_user_id(h).uid}, q \in W.lists :
               /\ op' = [op EXCEPT ![r] = "list"]
               /\ body' = [body EXCEPT ![r] = q]
               /\ IF valid_list_query(q)
                  THEN /\ caller' = [caller EXCEPT ![r] = u]
                       /\ updates' = [updates EXCEPT ![r] = list_notes(store, u, q)]
                       /\ pc' = [pc EXCEPT ![r] = "listed"]
                       /\ UNCHANGED resp
                  ELSE /\ pc' = [pc EXCEPT ![r] = "done"]
                       /\ resp' = [resp EXCEPT ![r] = RequestValidationError]
                       /\ UNCHANGED <<caller, updates>>
    /\ UNCHANGED <<store, nextId, clock, nid, dirty>>

\* GET /notes: the PaginatedNotes response
list_response(r) ==
    /\ pc[r] = "listed" /\ op[r] = "list"
    /\ Finish(r, PaginatedNotes(updates[r], body[r]))
    /\ UNCHANGED <<store, nextId, clock, op, caller, nid, auth, dirty>>

\* the response is sent; the worker takes the next request
Respond(r) ==
    /\ pc[r] = "done"
    /\ pc' = [pc EXCEPT ![r] = "idle"]
    /\ op' = [op EXCEPT ![r] = "none"]
    /\ caller' = [caller EXCEPT ![r] = "none"]
    /\ nid' = [nid EXCEPT ![r] = 0]
    /\ resp' = [resp EXCEPT ![r] = NoResp]
    /\ body' = [body EXCEPT ![r] = <<>>]
    /\ auth' = [auth EXCEPT ![r] = None]
    /\ UNCHANGED <<store, nextId, clock, updates, dirty>>

Requests(W) ==
    \E r \in Reqs :
        \/ update_note(r, W)
        \/ update_now(r)
        \/ update_write(r)
        \/ update_readback(r)
        \/ toggle_pin(r, W)
        \/ toggle_pin_write(r)
        \/ toggle_pin_readback(r)
        \/ delete_note(r, W)
        \/ delete_write(r)
        \/ create_note(r, W)
        \/ create_set(r)
        \/ create_readback(r)
        \/ list_request(r, W)
        \/ list_response(r)
        \/ unauthorized(r, W)
        \/ Respond(r)

\* the endpoints that name a note, and create
Next ==
    \E r \in Reqs :
        \/ update_note(r, LoadOwners)
        \/ update_now(r)
        \/ update_write(r)
        \/ update_readback(r)
        \/ toggle_pin(r, LoadOwners)
        \/ toggle_pin_write(r)
        \/ toggle_pin_readback(r)
        \/ delete_note(r, LoadOwners)
        \/ delete_write(r)
        \/ create_note(r, LoadOwners)
        \/ create_set(r)
        \/ create_readback(r)
        \/ Respond(r)

Spec == Init /\ [][Next]_vars

\* GET /notes of both users, and of callers without bearer credentials,
\* against create, pin and delete
NextShared ==
    \E r \in Reqs :
        \/ toggle_pin(r, LoadOwners)
        \/ toggle_pin_write(r)
        \/ toggle_pin_readback(r)
        \/ delete_note(r, LoadOwners)
        \/ delete_write(r)
        \/ create_note(r, LoadOwners)
        \/ create_set(r)
        \/ create_readback(r)
        \/ list_request(r, LoadOwners)
        \/ list_response(r)
        \/ unauthorized(r, LoadOwners)
        \/ Respond(r)

SpecShared == Init /\ [][NextShared]_vars

NextFields == Tick \/ Requests(LoadFields)

SpecFields == Init /\ [][NextFields]_vars

\* ---------------------------------------------- the failure specification
\* Firestore may be unreachable: firestore.client() in get_db and every
\* call on the collection may raise, and a call that raises has had no
\* effect.  pc = "raised" is a request in which such an exception is
\* propagating; updates holds the call that raised.
LoadFail ==
    [auths |-> {HeaderOf("u1"), None, Header("Basic", "t-u1")},
     ids |-> {1},
     new |-> {[title |-> <<"S">>, content |-> <<"n">>]},
     upd |-> {[title |-> <<>>]},
     pins |-> {TRUE},
     lists |-> {[page |-> DEFAULT_PAGE, page_size |-> DEFAULT_PAGE_SIZE, sort |-> SORT_UPDATED_AT_DESC],
                [page |-> DEFAULT_PAGE, page_size |-> 0, sort |-> SORT_UPDATED_AT_DESC]}]

\* an exception of the store call `site` starts to propagate in request r
Raise(r, site) ==
    /\ pc' = [pc EXCEPT ![r] = "raised"]
    /\ updates' = [updates EXCEPT ![r] = [raised |-> site]]

\* handlers that take a failed read for an absent note or an empty result
on_store_error_swallow(o, site) ==
    IF site = "get_owned" THEN NotFoundError
    ELSE IF site = "list_notes"
    THEN [status |-> 200, code |-> "",
          note |-> [items |-> <<>>, total |-> 0, page |-> DEFAULT_PAGE, page_size |-> DEFAULT_PAGE_SIZE]]
    ELSE InternalServerError

\* the response to an exception of a store call in endpoint o: neither the
\* repository nor the handlers catch it, general_exception_handler answers
on_store_error(o, site) == InternalServerError

\* Depends(get_db), resolved before Depends(get_current_user_id):
\* firestore.client() raises
get_db_raises(r, W) ==
    /\ pc[r] = "idle"
    /\ \E o \in Endpoints, h \in W.auths :
         /\ op' = [op EXCEPT ![r] = o]
         /\ auth' = [auth EXCEPT ![r] = h]
    /\ Raise(r, "get_db")
    /\ UNCHANGED <<store, nextId, clock, caller, nid, body, resp, dirty>>

\* repo.get_owned: the document get raises
get_owned_raises(r, W) ==
    /\ pc[r] = "idle"
    /\ \E h \in W.auths :
         /\ Authenticated(r, h)
         /\ \E u \in {get_current_user_id(h).uid}, o \in {"update", "pin", "delete"}, n \in W.ids :
               /\ op' = [op EXCEPT ![r] = o]
               /\ caller' = [caller EXCEPT ![r] = u]
               /\ nid' = [nid EXCEPT ![r] = n]
    /\ Raise(r, "get_owned")
    /\ UNCHANGED <<store, nextId, clock, body, resp, dirty>>

\* repo.list_notes: query.stream() raises
list_raises(r, W) ==
    /\ pc[r] = "idle"
    /\ \E h \in W.auths :
         /\ Authenticated(r, h)
         /\ \E u \in {get_current_user_id(h).uid}, q \in W.lists :
               /\ valid_list_query(q)
               /\ op' = [op EXCEPT ![r] = "list"]
               /\ caller' = [caller EXCEPT ![r] = u]
    /\ Raise(r, "list_notes")
    /\ UNCHANGED <<store, nextId, clock, nid, body, resp, dirty>>

\* the update, set or delete a request is about to make, or its read-back
\* get, raises
store_call_raises(r) ==
    /\ \/ pc[r] = "owned" /\ op[r] \in {"pin", "delete"}
       \/ pc[r] = "stamped"
       \/ pc[r] = "written"
    /\ Raise(r, IF pc[r] = "written" THEN "get" ELSE op[r])
    /\ UNCHANGED <<store, nextId, clock, op, caller, nid, body, resp, auth, dirty>>

\* general_exception_handler
general_exception_handler(r) ==
    /\ pc[r] = "raised"
    /\ Finish(r, on_store_error(op[r], updates[r].raised))
    /\ UNCHANGED <<store, nextId, clock, op, caller, nid, auth, dirty>>

NextFail ==
    \/ Requests(LoadFail)
    \/ \E r \in Reqs :
          \/ get_db_raises(r, LoadFail)
          \/ get_owned_raises(r, LoadFail)
          \/ list_raises(r, LoadFail)
          \/ store_call_raises(r)
          \/ general_exception_handler(r)

SpecFail == Init /\ [][NextFail]_vars

\* ----------------------------------------------- the create specification
\* creates of both users with every NoteIn, on a clock that advances, with
\* pin toggles and deletes of the notes
LoadCreate ==
    [auths |-> {HeaderOf(u) : u \in Users} \cup {None},
     ids |-> NoteIds,
     new |-> NoteIn,
     pins |-> {TRUE}]

NextCreate ==
    \/ Tick
    \/ \E r \in Reqs :
          \/ create_note(r, LoadCreate)
          \/ create_set(r)
          \/ create_readback(r)
          \/ toggle_pin(r, LoadCreate)
          \/ toggle_pin_write(r)
          \/ toggle_pin_readback(r)
          \/ delete_note(r, LoadCreate)
          \/ delete_write(r)
          \/ unauthorized(r, LoadCreate)
          \/ Respond(r)

SpecCreate == Init /\ [][NextCreate]_vars

\* ------------------------------------------------- the list specification
\* documents of a collection that GET /notes reads: notes of u1 with each
\* pinned flag and updated_at 1, 2 or none (a document written by another
\* client of the project), in two texts, and a note of u2
ListedDocs ==
    {[title |-> <<"S">>, content |-> <<"n">>, pinned |-> p, updated_at |-> t, owner_id |-> "u1"] :
        p \in BOOLEAN, t \in {NullTime, 1, 2}}
    \cup {[title |-> <<>>, content |-> <<"n", "e", "w">>, pinned |-> FALSE, updated_at |-> 1,
           owner_id |-> "u1"],
          [title |-> <<>>, content |-> <<"n", "e", "w">>, pinned |-> TRUE, updated_at |-> NullTime,
           owner_id |-> "u1"],
          [title |-> <<"S">>, content |-> <<"n">>, pinned |-> TRUE, updated_at |-> 2, owner_id |-> "u2"]}

\* the searches sent: none, "", "s", "S", "NE", "sn", "ew"
Searches == {<<>>, <<"s">>, <<"S">>, <<"N", "E">>, <<"s", "n">>, <<"e", "w">>}

Sorts == {SORT_UPDATED_AT_DESC, SORT_UPDATED_AT_ASC, SORT_PINNED_DESC}

\* the query strings sent to GET /notes: every page of sizes 1, 2 and the
\* maximum in each order, the pinned filter, the searches, and parameters
\* outside the accepted domain
LoadList ==
    [auths |-> {HeaderOf("u1"), None, Header("Basic", "t-u1"), Header("Bearer", ""),
                Header("Bearer", "t-old"), Header("Bearer", "t-anon")},
     lists |->
        {[page |-> p, page_size |-> z, sort |-> s] :
            p \in 1..MaxListed, z \in {1, 2, MAX_PAGE_SIZE}, s \in Sorts}
        \cup {[pinned |-> b, page |-> p, page_size |-> 1, sort |-> s] :
                b \in BOOLEAN, p \in {1, 2}, s \in Sorts}
        \cup {[search |-> x, page |-> DEFAULT_PAGE, page_size |-> DEFAULT_PAGE_SIZE,
               sort |-> SORT_UPDATED_AT_DESC] : x \in Searches}
        \cup {[search |-> <<"s">>, pinned |-> TRUE, page |-> 2, page_size |-> 1,
               sort |-> SORT_PINNED_DESC]}
        \cup {[page |-> 0, page_size |-> DEFAULT_PAGE_SIZE, sort |-> SORT_UPDATED_AT_DESC],
              [page |-> DEFAULT_PAGE, page_size |-> 0, sort |-> SORT_UPDATED_AT_DESC],
              [page |-> DEFAULT_PAGE, page_size |-> MAX_PAGE_SIZE + 1, sort |-> SORT_UPDATED_AT_DESC],
              [page |-> DEFAULT_PAGE, page_size |-> DEFAULT_PAGE_SIZE, sort |-> "title_asc"],
              [page |-> DEFAULT_PAGE, page_size |-> DEFAULT_PAGE_SIZE, sort |-> ""]}]

\* a collection of MaxListed documents, and no request yet
InitList ==
    /\ store \in [1..MaxListed -> ListedDocs]
    /\ nextId = MaxListed + 1
    /\ clock = MaxClock
    /\ pc = [r \in Reqs |-> "idle"]
    /\ op = [r \in Reqs |-> "none"]
    /\ caller = [r \in Reqs |-> "none"]
    /\ nid = [r \in Reqs |-> 0]
    /\ body = [r \in Reqs |-> <<>>]
    /\ updates = [r \in Reqs |-> <<>>]
    /\ resp = [r \in Reqs |-> NoResp]
    /\ auth = [r \in Reqs |-> None]
    /\ dirty = [r \in Reqs |-> FALSE]

\* GET /notes reads the store in one call and writes nothing: the list
\* requests are served one after the other, in the first slot
NextList ==
    \E r \in {1} :
        /\ \A o \in Reqs \ {r} : pc[o] = "idle"
        /\ \/ list_request(r, LoadList)
           \/ list_response(r)
           \/ unauthorized(r, LoadList)
           \/ Respond(r)

SpecList == InitList /\ [][NextList]_vars

\* ================================================================== claims
Mutators == {"update", "pin", "delete"}

\* C1: for every stored note N of owner A and every caller B # A,
\* get_owned(N.id, B) is None, in every reachable state; and a handler that
\* got a note from get_owned runs for the owner of that note
NoCrossOwnerRead ==
    /\ \A n \in DOMAIN store : \A u \in Users :
          u # store[n].owner_id => get_owned(store, n, u) = None
    /\ \A r \in Reqs :
          (op[r] \in Mutators /\ pc[r] \in {"owned", "stamped", "written"}
             /\ Exists(store, nid[r]))
          => store[nid[r]].owner_id = caller[r]

\* a note created by u2 is stored, and u1's request on it has ended in 404
CrossOwnerReadSeen ==
    \E r \in Reqs :
        /\ pc[r] = "done" /\ op[r] \in Mutators /\ caller[r] = "u1"
        /\ Exists(store, nid[r]) /\ store[nid[r]].owner_id = "u2"
        /\ store[nid[r]].title = <<"S">>
        /\ resp[r] = NotFoundError

\* C2: a step of an update, pin or delete request whose caller is not the
\* owner of the stored target note ends the request in NotFound and leaves
\* the store as it was, whatever the other requests are doing
CrossOwnerNoWrite ==
    [][\A r \in Reqs :
         (/\ pc'[r] # pc[r]
          /\ op'[r] \in Mutators
          /\ Exists(store, nid'[r])
          /\ store[nid'[r]].owner_id # caller'[r])
         => (store' = store /\ pc'[r] = "done" /\ resp'[r] = NotFoundError)]_vars

\* u1's delete of u2's note has ended in 404 while u2's own update of that
\* note is between its clock read and its write, and the note is still there
CrossOwnerDeniedSeen ==
    \E r, q \in Reqs :
        /\ pc[r] = "done" /\ op[r] = "delete" /\ caller[r] = "u1"
        /\ resp[r] = NotFoundError
        /\ Exists(store, nid[r]) /\ store[nid[r]].owner_id = "u2"
        /\ pc[q] = "stamped" /\ op[q] = "update" /\ nid[q] = nid[r]

\* C3: for a caller B and a note X stored with another owner, get_owned and
\* the handlers' ownership check give B what they give in the store without
\* X; and every refusal a handler has answered to an authenticated caller
\* is the one NotFound response
NoExistenceLeak ==
    /\ \A n \in DOMAIN store : \A u \in Users :
          u # store[n].owner_id =>
             /\ get_owned(store, n, u) = get_owned(firestore_delete(store, n), n, u)
             /\ Outcome(store, n, u) = Outcome(firestore_delete(store, n), n, u)
             /\ Outcome(store, n, u) = NotFoundError
    /\ \A r \in Reqs :
          (pc[r] = "done" /\ op[r] \in Mutators /\ caller[r] \in Users
             /\ resp[r].status \in 400..499)
          => resp[r] = NotFoundError

\* one request on a missing note and one on another owner's note have both
\* ended, with the same response
ExistenceLeakCaseSeen ==
    \E r, q \in Reqs :
        /\ pc[r] = "done" /\ pc[q] = "done"
        /\ op[r] = "pin" /\ op[q] = "pin"
        /\ caller[r] = caller[q]
        /\ ~Exists(store, nid[r])
        /\ Exists(store, nid[q]) /\ store[nid[q]].owner_id # caller[q]
        /\ resp[r] = resp[q] /\ resp[r] = NotFoundError

\* the step in which request r applies the store write of its update
UpdateWrites(r) == pc[r] = "stamped" /\ op[r] = "update" /\ pc'[r] = "written"

\* the step in which request r applies the store write of its pin toggle
PinWrites(r) == pc[r] = "owned" /\ op[r] = "pin" /\ pc'[r] = "written"

\* C4: the store write of update(note_id, title?, content?, pinned?) keeps
\* the stored value of each omitted field, stores each provided field as
\* given (the empty string and false too), keeps owner_id, sets updated_at
\* to the time the call read, and touches no other note
PartialUpdate ==
    [][\A r \in Reqs : UpdateWrites(r) =>
         LET n == nid[r]
             b == body[r]
         IN /\ DOMAIN store' = DOMAIN store
            /\ \A m \in DOMAIN store \ {n} : store'[m] = store[m]
            /\ store'[n].title = (IF "title" \in DOMAIN b THEN b.title ELSE store[n].title)
            /\ store'[n].content = (IF "content" \in DOMAIN b THEN b.content ELSE store[n].content)
            /\ store'[n].pinned = (IF "pinned" \in DOMAIN b THEN b.pinned ELSE store[n].pinned)
            /\ store'[n].owner_id = store[n].owner_id
            /\ store'[n].updated_at = updates[r].updated_at
            /\ (b = <<>> => store'[n] = [store[n] EXCEPT !.updated_at = updates[r].updated_at])]_vars

\* an update that gave the empty title and pinned = false has stored them
EmptyAndFalseStoredSeen ==
    \E r \in Reqs :
        /\ pc[r] = "written" /\ op[r] = "update" /\ ~dirty[r]
        /\ body[r] = [title |-> <<>>, pinned |-> FALSE]
        /\ store[nid[r]].title = <<>> /\ ~store[nid[r]].pinned
        /\ store[nid[r]].content = <<"n">>

\* update(title=None, content="new", pinned=None) has written a pinned note
\* made as "S": the title is still "S", the content is "new"
PartialUpdateSeen ==
    /\ \E r \in Reqs :
          /\ pc[r] = "written" /\ op[r] = "update" /\ ~dirty[r]
          /\ body[r] = [content |-> <<"n", "e", "w">>]
          /\ store[nid[r]].title = <<"S">>
          /\ store[nid[r]].content = <<"n", "e", "w">>
          /\ store[nid[r]].pinned
          /\ store[nid[r]].updated_at = 2

\* C5: the store write of toggle_pin(note_id, pinned) sets the pinned flag
\* to the given value and leaves updated_at, title, content and owner_id of
\* the note, and every other note, as they were
TogglePinFrame ==
    [][\A r \in Reqs : PinWrites(r) =>
         /\ DOMAIN store' = DOMAIN store
         /\ \A m \in DOMAIN store \ {nid[r]} : store'[m] = store[m]
         /\ store'[nid[r]] = [store[nid[r]] EXCEPT !.pinned = body[r].pinned]
         /\ store'[nid[r]].pinned = body[r].pinned]_vars

\* a pin toggle has set pinned at time 2 on a note last updated at time 1
TogglePinSeen ==
    \E r \in Reqs :
        /\ pc[r] = "written" /\ op[r] = "pin" /\ ~dirty[r]
        /\ updates[r] = [pinned |-> TRUE]
        /\ store[nid[r]].pinned
        /\ store[nid[r]].updated_at = 1 /\ clock = 2

\* C6 as claimed: the stored updated_at of a note never decreases from one
\* state to the next, overlapping update requests included
UpdatedAtNeverDecreases ==
    [][\A n \in DOMAIN store \cap DOMAIN store' :
         store'[n].updated_at >= store[n].updated_at]_vars

\* C6 as amended: the stored updated_at of a note decreases in no step but
\* the store write of an update request that another write to that note has
\* overtaken since the request read the clock
UpdatedAtMonotoneSequential ==
    [][\A n \in DOMAIN store \cap DOMAIN store' :
         store'[n].updated_at < store[n].updated_at =>
            \E r \in Reqs : UpdateWrites(r) /\ nid[r] = n /\ dirty[r]]_vars

\* a note created at time 1 (its create has not read back yet) has been
\* updated, with no write in between, by a request that read the clock at 2
SequentialUpdateSeen ==
    \E r, q \in Reqs :
        /\ op[q] = "create" /\ pc[q] = "written" /\ updates[q].updated_at = 1
        /\ op[r] = "update" /\ pc[r] = "written" /\ nid[r] = nid[q] /\ ~dirty[r]
        /\ updates[r].updated_at = 2
        /\ store[nid[r]].updated_at = 2

\* C7: every stored note has one owner_id, a user: the caller of the create
\* request whose set stored it; no step changes the owner_id of a note that
\* stays stored
OwnershipFixed ==
    [][\A n \in NoteIds :
         /\ (Exists(store, n) /\ Exists(store', n)) =>
               store'[n].owner_id = store[n].owner_id
         /\ (~Exists(store, n) /\ Exists(store', n)) =>
               \E r \in Reqs :
                  /\ op[r] = "create" /\ pc[r] = "stamped" /\ pc'[r] = "written"
                  /\ nid[r] = n
                  /\ store'[n].owner_id = caller[r]
                  /\ caller[r] \in Users]_vars

\* u2's note has been written by an update and by a pin toggle of u2 at
\* once, and is still u2's
OwnerKeptSeen ==
    \E r, q \in Reqs :
        /\ op[r] = "update" /\ pc[r] = "written"
        /\ op[q] = "pin" /\ pc[q] = "written" /\ nid[q] = nid[r]
        /\ caller[r] = "u2" /\ caller[q] = "u2"
        /\ Exists(store, nid[r]) /\ store[nid[r]].owner_id = "u2"

\* C8 as claimed: an update, pin or delete request never ends in an
\* internal error, also when the note is deleted between the request's
\* get_owned and its store write
NeverInternalError ==
    \A r \in Reqs :
        (pc[r] = "done" /\ op[r] \in Mutators) => resp[r].status # 500

\* C9 as claimed: a note that an update returns has every field the call
\* provided at the provided value and the updated_at the call wrote, in
\* every execution
ReturnsOwnMerge ==
    [][\A r \in Reqs :
         (/\ pc[r] = "written" /\ op[r] = "update" /\ pc'[r] = "done"
          /\ resp'[r].note # None)
         => \A k \in DOMAIN updates[r] : resp'[r].note[k] = updates[r][k]]_vars

\* C9 as amended: the same, for a call whose note no other request wrote
\* between the call's store write and its read-back; the returned note is
\* then the stored one
ReturnsOwnMergeUndisturbed ==
    [][\A r \in Reqs :
         (pc[r] = "written" /\ op[r] = "update" /\ pc'[r] = "done" /\ ~dirty[r]) =>
            /\ resp'[r].status = 200
            /\ \A k \in DOMAIN updates[r] : resp'[r].note[k] = updates[r][k]
            /\ \A k \in DOMAIN resp'[r].note \ {"id"} :
                  resp'[r].note[k] = store[nid[r]][k]
            /\ resp'[r].note.id = nid[r]]_vars

\* an update has returned 200 with the content "new" and the time 2 it wrote
ReturnedMergeSeen ==
    \E r \in Reqs :
        /\ pc[r] = "done" /\ op[r] = "update" /\ resp[r].status = 200
        /\ resp[r].note.content = <<"n", "e", "w">>
        /\ resp[r].note.title = <<"S">>
        /\ resp[r].note.updated_at = 2
        /\ store[nid[r]].updated_at = 2

\* C10: when update q writes a note that update r wrote last (r still
\* before its read-back), every field q gives, updated_at included, is
\* stored at q's value, every field only r gave stays at r's value, and
\* every other field stays as stored
LastWriteWins ==
    [][\A r, q \in Reqs :
         (/\ r # q /\ nid[r] = nid[q]
          /\ op[r] = "update" /\ pc[r] = "written" /\ ~dirty[r]
          /\ UpdateWrites(q))
         => store'[nid[q]] =
              [k \in DOMAIN store[nid[q]] |->
                 IF k \in DOMAIN updates[q] THEN updates[q][k]
                 ELSE IF k \in DOMAIN updates[r] THEN updates[r][k]
                 ELSE store[nid[q]][k]]]_vars

\* two updates of one note have both written: r (title only, clock read at
\* 2) wrote first, q (content only, clock read at 1) wrote last; the note
\* has r's title, q's content and q's updated_at
LastWriteWinsSeen ==
    \E r, q \in Reqs :
        /\ r # q /\ nid[r] = nid[q]
        /\ op[r] = "update" /\ pc[r] = "written" /\ dirty[r]
        /\ op[q] = "update" /\ pc[q] = "written" /\ ~dirty[q]
        /\ body[r] = [title |-> <<>>] /\ updates[r].updated_at = 2
        /\ body[q] = [content |-> <<"n", "e", "w">>] /\ updates[q].updated_at = 1
        /\ store[nid[q]].title = <<>>
        /\ store[nid[q]].content = <<"n", "e", "w">>
        /\ store[nid[q]].updated_at = 1

\* ------------------------------------------------------------- list claims
\* string x occurs in string s at some offset
OccursIn(x, s) ==
    \E k \in 0..(Len(s) - Len(x)) : \A i \in 1..Len(x) : s[k + i] = x[i]

\* the stored note n is one that a list request of owner u with the query
\* parameters q selects: it is u's, has the pinned flag asked for, and has
\* the lower-cased search string in its lower-cased title or content
Selected(st, n, u, q) ==
    /\ st[n].owner_id = u
    /\ ("pinned" \in DOMAIN q => st[n].pinned = q.pinned)
    /\ (("search" \in DOMAIN q /\ q.search # <<>>) =>
           \/ OccursIn(lower(q.search), lower(st[n].title))
           \/ OccursIn(lower(q.search), lower(st[n].content)))

\* a list request whose repository call has returned
Listed(r) == pc[r] = "listed" /\ op[r] = "list"

\* C11: for page >= 1 and page_size >= 1 the items list_notes returns are
\* positions [(page-1)*page_size, (page-1)*page_size + page_size) of the
\* filtered, sorted list, at most page_size of them; total is the number of
\* stored notes the owner, pinned and search filters select, the same for
\* every page; a page that starts past the end is empty, with that total
PaginationSlice ==
    \A r \in Reqs : Listed(r) =>
      \A full \in {list_sorted(store, caller[r], body[r])} :
        LET q == body[r]
            res == updates[r]
            start == (q.page - 1) * q.page_size
        IN /\ q.page >= 1 /\ q.page_size >= 1
           /\ Len(res.items) <= q.page_size
           /\ \A i \in 1..Len(res.items) : res.items[i] = full[start + i]
           /\ \A i \in 1..Len(full) :
                 (start < i /\ i <= start + q.page_size) =>
                    (i - start <= Len(res.items) /\ res.items[i - start] = full[i])
           /\ res.total = Len(full)
           /\ res.total = Cardinality({n \in DOMAIN store : Selected(store, n, caller[r], q)})
           /\ \A p \in 1..(MaxListed + 1) :
                 list_notes(store, caller[r], [q EXCEPT !.page = p]).total = res.total
           /\ (start >= res.total => res.items = <<>>)

\* page 2 of size 2 of three selected notes has come back: one item, the
\* third of the order, and total 3
LastPageSeen ==
    \E r \in Reqs :
        /\ Listed(r)
        /\ body[r].page = 2 /\ body[r].page_size = 2
        /\ updates[r].total = 3
        /\ Len(updates[r].items) = 1
        /\ updates[r].items[1] = list_sorted(store, caller[r], body[r])[3]

\* page 3 of size 2 of three notes has been answered 200 with no items and
\* total 3
PastEndSeen ==
    \E r \in Reqs :
        /\ pc[r] = "done" /\ op[r] = "list" /\ resp[r].status = 200
        /\ resp[r].note.page = 3 /\ resp[r].note.page_size = 2
        /\ resp[r].note.items = <<>> /\ resp[r].note.total = 3

\* the time a note is ordered by: its updated_at, the epoch when it has none
OrderTime(it) == IF it.updated_at = NullTime THEN 0 ELSE it.updated_at

\* C12: in what list_notes returns under sort = pinned_desc, every pinned
\* note precedes every unpinned one, and within the pinned and within the
\* unpinned notes updated_at does not increase, a missing updated_at
\* counting as the epoch; a page of size 100 from the start is the whole
\* ordering
PinnedFirst ==
    \A r \in Reqs : (Listed(r) /\ body[r].sort = "pinned_desc") =>
        LET items == updates[r].items
        IN /\ \A i, j \in 1..Len(items) : i < j =>
                 /\ (items[j].pinned => items[i].pinned)
                 /\ (items[i].pinned = items[j].pinned =>
                        OrderTime(items[i]) >= OrderTime(items[j]))
           /\ (body[r].page = 1 /\ body[r].page_size = 100) =>
                 Len(items) = updates[r].total

\* u1 has A (note 1, not pinned, updated at 1) and B (note 2, pinned,
\* updated at 2): list_notes(u1, pinned_desc, page 1) has returned [B, A]
\* with total 2
PinnedFirstSeen ==
    \E r \in Reqs :
        /\ Listed(r) /\ body[r].sort = "pinned_desc" /\ body[r].page = 1
        /\ ~store[1].pinned /\ store[1].updated_at = 1 /\ store[1].owner_id = "u1"
        /\ store[2].pinned /\ store[2].updated_at = 2 /\ store[2].owner_id = "u1"
        /\ store[3].owner_id = "u2"
        /\ updates[r].total = 2
        /\ Len(updates[r].items) = 2
        /\ updates[r].items[1].id = 2 /\ updates[r].items[2].id = 1

\* three pinned notes of u1, one without updated_at, have been listed under
\* pinned_desc: the one without updated_at is last
PinnedEpochLastSeen ==
    \E r \in Reqs :
        /\ Listed(r) /\ body[r].sort = "pinned_desc"
        /\ Len(updates[r].items) = 3
        /\ \A i \in 1..3 : updates[r].items[i].pinned
        /\ updates[r].items[1].updated_at = 2
        /\ updates[r].items[2].updated_at = 1
        /\ updates[r].items[3].updated_at = NullTime

\* C13: in every page list_notes returns under sort = updated_at_desc each
\* item is at least as recent as the one after it, and the last item of a
\* page is at least as recent as the first item of the next page of the
\* same collection; a note without updated_at is ordered as the epoch, so
\* after every note that has one
NewestFirst ==
    \A r \in Reqs : (Listed(r) /\ body[r].sort = "updated_at_desc") =>
      \A next \in {list_notes(store, caller[r], [body[r] EXCEPT !.page = @ + 1]).items} :
        LET items == updates[r].items
        IN /\ \A i \in 1..(Len(items) - 1) :
                 /\ OrderTime(items[i]) >= OrderTime(items[i + 1])
                 /\ (items[i].updated_at = NullTime => items[i + 1].updated_at = NullTime)
           /\ (items # <<>> /\ next # <<>>) =>
                 /\ OrderTime(items[Len(items)]) >= OrderTime(next[1])
                 /\ (items[Len(items)].updated_at = NullTime => next[1].updated_at = NullTime)

\* page 1 of size 2 under updated_at_desc has the notes updated at 2 and at
\* 1, and page 2 starts with a note that has no updated_at
NewestFirstSeen ==
    \E r \in Reqs :
        /\ Listed(r) /\ body[r].sort = "updated_at_desc"
        /\ body[r].page = 1 /\ body[r].page_size = 2
        /\ updates[r].total = 3
        /\ updates[r].items[1].updated_at = 2
        /\ updates[r].items[2].updated_at = 1
        /\ list_notes(store, caller[r], [body[r] EXCEPT !.page = 2]).items[1].updated_at = NullTime
        /\ store[1].updated_at = NullTime

\* the ids of the notes a list request got, when its page holds them all
ListedIds(r) == {updates[r].items[i].id : i \in 1..Len(updates[r].items)}

\* the stored notes of the caller of r that pass r's pinned filter
Queried(r) ==
    {n \in DOMAIN store :
        /\ store[n].owner_id = caller[r]
        /\ ("pinned" \in DOMAIN body[r] => store[n].pinned = body[r].pinned)}

\* C14: with a non-empty search string s, a note of the owner is in what
\* list_notes returns exactly when lower-cased s occurs in its lower-cased
\* title or in its lower-cased content; with search absent or empty, the
\* search step excludes no note
SearchFilter ==
    \A r \in Reqs : (Listed(r) /\ Len(updates[r].items) = updates[r].total) =>
        IF "search" \in DOMAIN body[r] /\ body[r].search # <<>>
        THEN \A n \in Queried(r) :
                n \in ListedIds(r) <=>
                   \/ OccursIn(lower(body[r].search), lower(store[n].title))
                   \/ OccursIn(lower(body[r].search), lower(store[n].content))
        ELSE ListedIds(r) = Queried(r)

\* the search "NE" has returned u1's note with the content "new" and not
\* u1's note "S" / "n"
SearchFilterSeen ==
    \E r \in Reqs :
        /\ Listed(r) /\ "search" \in DOMAIN body[r] /\ body[r].search = <<"N", "E">>
        /\ updates[r].total = 1 /\ Len(updates[r].items) = 1
        /\ updates[r].items[1].content = <<"n", "e", "w">>
        /\ \E n \in Queried(r) : store[n].title = <<"S">> /\ n \notin ListedIds(r)

\* the search "s" has returned a note by its title "S", and the search ""
\* has returned every note of u1
SearchCaseSeen ==
    \E r \in Reqs :
        /\ Listed(r) /\ "search" \in DOMAIN body[r] /\ body[r].search = <<"s">>
        /\ \E i \in 1..Len(updates[r].items) : updates[r].items[i].title = <<"S">>

SearchEmptySeen ==
    \E r \in Reqs :
        /\ Listed(r) /\ "search" \in DOMAIN body[r] /\ body[r].search = <<>>
        /\ updates[r].total = 3 /\ ListedIds(r) = {1, 2, 3}

\* the step in which the repository call of list request r reads the store
Lists(r) == pc[r] = "idle" /\ pc'[r] = "listed" /\ op'[r] = "list"

\* C15: whatever the store holds when list_notes(owner_id, ..., pinned = p,
\* ...) reads it, every item returned is a stored note whose owner_id is the
\* given one and, when p is given, whose pinned flag is p; total counts
\* those notes of the owner and no note of another owner
OwnerScopedList ==
    [][\A r \in Reqs : Lists(r) =>
         LET res == updates'[r]
             u == caller'[r]
             q == body'[r]
         IN /\ \A i \in 1..Len(res.items) :
                  LET it == res.items[i]
                  IN /\ Exists(store, it.id)
                     /\ it = doc_to_noteout(store, it.id)
                     /\ store[it.id].owner_id = u
                     /\ it.owner_id = u
                     /\ ("pinned" \in DOMAIN q =>
                           (store[it.id].pinned = q.pinned /\ it.pinned = q.pinned))
            /\ res.total = Cardinality({n \in DOMAIN store : Selected(store, n, u, q)})
            /\ res.total <= Cardinality({n \in DOMAIN store : store[n].owner_id = u})]_vars

\* u1 and u2 each have a pinned note; u1's list with pinned = true has
\* returned u1's note alone, with total 1
OwnerScopedListSeen ==
    \E r \in Reqs :
        /\ Listed(r) /\ caller[r] = "u1"
        /\ "pinned" \in DOMAIN body[r] /\ body[r].pinned
        /\ \E n, k \in DOMAIN store :
              /\ store[n].owner_id = "u1" /\ store[n].pinned
              /\ store[k].owner_id = "u2" /\ store[k].pinned
              /\ updates[r].total = 1
              /\ Len(updates[r].items) = 1
              /\ updates[r].items[1].id = n

\* note id n has been given to a create whose set has run, and no document
\* n is stored: note n was deleted
Deleted(n) ==
    /\ n < nextId
    /\ ~Exists(store, n)
    /\ \A r \in Reqs : ~(op[r] = "create" /\ nid[r] = n /\ pc[r] = "stamped")

\* the step in which delete request r removes its note and answers 204
Deletes(r) == pc[r] = "owned" /\ op[r] = "delete" /\ pc'[r] = "done"

\* a step after which note n is deleted and that changed the store or
\* deleted n: list_notes reads the store alone, so these are the steps after
\* which its results for a deleted note can differ from those before
DeletedAnew(n) == Deleted(n)' /\ (store' # store \/ ~Deleted(n))

\* C16: the store call of delete(note_id) leaves no document of that id,
\* and a deleted note stays deleted; get_owned of a deleted note is None for
\* every caller, its former owner included, and list_notes of any caller,
\* under any of the queries sent, neither returns nor counts it
HardDelete ==
    [][/\ \A n \in NoteIds :
            /\ (\E r \in Reqs : Deletes(r) /\ nid[r] = n) =>
                  (Deleted(n)' /\ (\E r \in Reqs : Deletes(r) /\ nid[r] = n /\ resp'[r] = NoContent))
            /\ Deleted(n) => Deleted(n)'
            /\ Deleted(n)' => \A c \in Users : get_owned(store', n, c) = None
       /\ (\E n \in NoteIds : DeletedAnew(n)) =>
            \A c \in Users, q \in LoadOwners.lists :
               \A res \in {list_notes(store', c, q)} :
                  \A n \in {m \in NoteIds : DeletedAnew(m)} :
                     /\ \A i \in 1..Len(res.items) : res.items[i].id # n
                     /\ res.total = Cardinality({m \in DOMAIN store' \ {n} :
                                                    Selected(store', m, c, q)})]_vars

\* u1 had two notes and has deleted one (204): u1's list request after it
\* has got the other note alone, with total 1
HardDeleteSeen ==
    \E r, q \in Reqs :
        /\ pc[r] = "done" /\ op[r] = "delete" /\ resp[r] = NoContent /\ caller[r] = "u1"
        /\ Deleted(nid[r])
        /\ Listed(q) /\ caller[q] = "u1" /\ "pinned" \notin DOMAIN body[q]
        /\ updates[q].total = 1
        /\ updates[q].items[1].id # nid[r]
        /\ updates[q] = list_notes(store, "u1", body[q])

\* ------------------------------------------------------------ create claim
\* the steps of create request r: the clock read and the new document id,
\* the set, the read-back
CreateStarts(r) == pc[r] = "idle" /\ pc'[r] = "stamped" /\ op'[r] = "create"
CreateSets(r) == pc[r] = "stamped" /\ op[r] = "create" /\ pc'[r] = "written"
CreateReturns(r) == pc[r] = "written" /\ op[r] = "create" /\ pc'[r] = "done"

\* the note that create(owner_id, title, content, pinned) of request r is
\* to store: the given fields, pinned false when omitted, the time read
\* when the call began
Given(r) ==
    [title |-> body[r].title,
     content |-> body[r].content,
     pinned |-> ("pinned" \in DOMAIN body[r] /\ body[r].pinned),
     updated_at |-> updates[r].updated_at,
     owner_id |-> caller[r]]

\* create stores one new note under an id no stored note has, with the
\* fields given, and modifies no stored note
CreateAddsOne(r) ==
    /\ CreateStarts(r) =>
          /\ updates'[r].updated_at = clock
          /\ ~Exists(store, nid'[r])
          /\ \A o \in Reqs \ {r} : ~(op[o] = "create" /\ nid[o] = nid'[r])
          /\ store' = store
    /\ CreateSets(r) =>
          /\ ~Exists(store, nid[r])
          /\ DOMAIN store' = DOMAIN store \cup {nid[r]}
          /\ \A m \in DOMAIN store : store'[m] = store[m]
          /\ store'[nid[r]] = Given(r)
    /\ CreateReturns(r) => store' = store

\* the note create returns is the given one, and get_owned(id, owner_id)
\* after it returns the same
CreateReturnsGiven(r) ==
    /\ resp'[r].note = [id |-> nid[r], title |-> Given(r).title, content |-> Given(r).content,
                        pinned |-> Given(r).pinned, updated_at |-> Given(r).updated_at]
    /\ get_owned(store', nid[r], caller[r]) # None
    /\ \A k \in DOMAIN resp'[r].note :
          get_owned(store', nid[r], caller[r])[k] = resp'[r].note[k]
    /\ get_owned(store', nid[r], caller[r]).owner_id = caller[r]

\* C17 as claimed: create adds exactly one new note, under a new id, with
\* the given fields (pinned false when omitted) and the creation time, and
\* modifies no other note; the note it returns is that note, and a
\* get_owned(id, owner_id) that follows returns the same, in every execution
CreateContract ==
    [][\A r \in Reqs :
         /\ CreateAddsOne(r)
         /\ (CreateReturns(r) /\ resp'[r].note # None) => CreateReturnsGiven(r)]_vars

\* C17 as amended: the same, the returned note and the following get_owned
\* being those of a create whose note no other request wrote between the
\* create's set and its read-back; such a create answers 201
CreateContractUndisturbed ==
    [][\A r \in Reqs :
         /\ CreateAddsOne(r)
         /\ (CreateReturns(r) /\ ~dirty[r]) =>
               (resp'[r].status = 201 /\ CreateReturnsGiven(r))]_vars

\* u2's create without pinned, begun at time 1, has stored its note at
\* time 2, not pinned, beside a note of u1 that is as it was
CreateSeen ==
    \E r \in Reqs :
        /\ op[r] = "create" /\ pc[r] = "written" /\ ~dirty[r]
        /\ caller[r] = "u2" /\ "pinned" \notin DOMAIN body[r]
        /\ updates[r].updated_at = 1 /\ clock = 2
        /\ store[nid[r]] = [title |-> <<"S">>, content |-> <<"n">>, pinned |-> FALSE,
                             updated_at |-> 1, owner_id |-> "u2"]
        /\ \E m \in DOMAIN store \ {nid[r]} : store[m].owner_id = "u1" /\ store[m].pinned

\* a create has answered 201 with the note it stored
CreateReturnedSeen ==
    \E r \in Reqs :
        /\ op[r] = "create" /\ pc[r] = "done" /\ resp[r].status = 201
        /\ resp[r].note.id = nid[r] /\ resp[r].note.pinned
        /\ get_owned(store, nid[r], caller[r]).updated_at = resp[r].note.updated_at
        /\ resp[r].note.updated_at = 2

\* -------------------------------------------------------- boundary claims
\* the step in which an authenticated GET /notes of request r is taken up
ListArrives(r) == pc[r] = "idle" /\ op'[r] = "list" /\ body'[r] # <<>>

\* C20: a list request with page < 1, page_size < 1, page_size > 100 or a
\* sort that is none of updated_at_desc, updated_at_asc and pinned_desc is
\* answered with a validation error and list_notes is not called for it;
\* every other list request reaches list_notes, so list_notes runs its
\* default ordering for sort = updated_at_desc alone
ListValidatedAtBoundary ==
    [][\A r \in Reqs : ListArrives(r) =>
         LET q == body'[r]
         IN IF \/ q.page < 1
               \/ q.page_size < 1
               \/ q.page_size > 100
               \/ q.sort \notin {"updated_at_desc", "updated_at_asc", "pinned_desc"}
            THEN /\ pc'[r] = "done"
                 /\ resp'[r].status = 422 /\ resp'[r].note = None
                 /\ updates'[r] = <<>>
                 /\ caller'[r] = "none"
                 /\ store' = store
            ELSE /\ pc'[r] = "listed"
                 /\ updates'[r] = list_notes(store, caller'[r], q)
                 /\ (q.sort \notin {"updated_at_asc", "pinned_desc"} => q.sort = "updated_at_desc")]_vars

\* GET /notes?sort=title_asc of u1 has been answered 422
ListRejectedSeen ==
    \E r \in Reqs :
        /\ pc[r] = "done" /\ op[r] = "list" /\ auth[r] = HeaderOf("u1")
        /\ body[r] # <<>> /\ body[r].sort = "title_asc"
        /\ resp[r] = RequestValidationError
        /\ updates[r] = <<>>

\* page = 0, page_size = 0 and page_size = 101 have each been answered 422
ListPageRejectedSeen ==
    \E r \in Reqs :
        /\ pc[r] = "done" /\ op[r] = "list" /\ body[r] # <<>> /\ body[r].page = 0
        /\ resp[r] = RequestValidationError

ListSizeRejectedSeen ==
    \E r \in Reqs :
        /\ pc[r] = "done" /\ op[r] = "list" /\ body[r] # <<>> /\ body[r].page_size = 101
        /\ resp[r] = RequestValidationError

\* --------------------------------------------------------- failure claims
\* C18: a request in which a store call (of list, get_owned, create,
\* update, toggle_pin, delete, or a read-back) raised is answered with the
\* internal server error, a 5xx that is not NotFound and carries no note
\* and no list, and its failed call leaves the store as it was; a NotFound
\* answers a get_owned that read the store and found no note of the
\* caller; an authenticated list request with valid parameters is answered
\* 200, with the total its query counted, or that 500
StoreFailureSurfaces ==
    [][\A r \in Reqs :
         /\ (pc[r] # "raised" /\ pc'[r] = "raised") =>
               (store' = store /\ resp'[r] = NoResp)
         /\ (pc[r] = "raised" /\ pc'[r] # "raised") =>
               /\ pc'[r] = "done"
               /\ resp'[r].status \in 500..599
               /\ resp'[r].code = "internal_server_error"
               /\ resp'[r] # NotFoundError
               /\ resp'[r].note = None
               /\ store' = store
         /\ (pc[r] = "idle" /\ pc'[r] = "done" /\ resp'[r] = NotFoundError) =>
               get_owned(store, nid'[r], caller'[r]) = None
         /\ (pc[r] # "done" /\ pc'[r] = "done" /\ op'[r] = "list"
               /\ get_current_user_id(auth'[r]) # UnauthorizedError /\ body'[r] = <<>>) =>
               \/ resp'[r].status = 500 /\ pc[r] = "raised"
               \/ /\ resp'[r].status = 200 /\ pc[r] = "listed"
                  /\ resp'[r].note.total = updates[r].total
                  /\ Len(resp'[r].note.items) = Len(updates[r].items)]_vars

\* u1 has a note; u1's GET /notes with the default parameters has been
\* answered 500
StoreFailureSeen ==
    \E r \in Reqs :
        /\ pc[r] = "done" /\ op[r] = "list" /\ auth[r] = HeaderOf("u1") /\ body[r] = <<>>
        /\ resp[r] = InternalServerError
        /\ \E n \in DOMAIN store : store[n].owner_id = "u1"

\* get_owned of u1's update has raised on u1's stored note, and the update
\* has been answered 500 with the note as it was
GetOwnedFailureSeen ==
    \E r \in Reqs :
        /\ pc[r] = "done" /\ op[r] = "update" /\ resp[r] = InternalServerError
        /\ Exists(store, nid[r]) /\ store[nid[r]].owner_id = caller[r]
        /\ store[nid[r]].title = <<"S">>

\* the request has no Authorization header, or one whose scheme is not
\* bearer in any case of letters
NoBearer(h) == h = None \/ h.scheme \notin {"Bearer", "bearer"}

\* the step in which request r, sent without bearer credentials, is taken up
ArrivesNoBearer(r) == pc[r] = "idle" /\ pc'[r] # "idle" /\ NoBearer(auth'[r])

UnauthorizedListSeen ==
    \E r \in Reqs :
        /\ pc[r] = "done" /\ op[r] = "list" /\ auth[r] = None
        /\ resp[r] = UnauthorizedError

\* ---------------------------------------------------- ascending order claim
\* C21: when list_notes is called with sort = updated_at_asc, the whole
\* filtered and sorted list, and so every page cut from it, does not
\* decrease in updated_at, a missing updated_at counting as the epoch: a
\* note without updated_at comes before every note that has one
OldestFirst ==
    [][\A r \in Reqs : (Lists(r) /\ body'[r].sort = SORT_UPDATED_AT_ASC) =>
         \A full \in {list_sorted(store, caller'[r], body'[r])} :
            /\ \A i \in 1..(Len(full) - 1) :
                  /\ OrderTime(full[i]) <= OrderTime(full[i + 1])
                  /\ (full[i + 1].updated_at = NullTime => full[i].updated_at = NullTime)
            /\ \A i, j \in 1..Len(full) :
                  (full[i].updated_at = NullTime /\ full[j].updated_at # NullTime) => i < j
            /\ Len(full) = updates'[r].total
            /\ \A i \in 1..Len(updates'[r].items) :
                  updates'[r].items[i] =
                     full[(body'[r].page - 1) * body'[r].page_size + i]]_vars

\* the collection holds notes of u1 updated at 2, without updated_at and
\* updated at 1, in that order of ids: list_notes under updated_at_asc has
\* returned them as none, 1, 2
OldestFirstSeen ==
    \E r \in Reqs :
        /\ Listed(r) /\ body[r].sort = SORT_UPDATED_AT_ASC
        /\ store[1].updated_at = 2 /\ store[2].updated_at = NullTime /\ store[3].updated_at = 1
        /\ Len(updates[r].items) = 3
        /\ updates[r].items[1].id = 2 /\ updates[r].items[1].updated_at = NullTime
        /\ updates[r].items[2].id = 3 /\ updates[r].items[2].updated_at = 1
        /\ updates[r].items[3].id = 1 /\ updates[r].items[3].updated_at = 2

\* ------------------------------------------------------- explicit set claim
\* two pin toggles of one note with one value are in flight together, and
\* both have done their store write
PinnedTwice(r, q) ==
    /\ r # q
    /\ op[r] = "pin" /\ op[q] = "pin"
    /\ pc[r] = "written" /\ pc[q] = "written"
    /\ nid[r] = nid[q]
    /\ updates[r] = updates[q]

\* C22: the store write of toggle_pin(note_id, p) leaves pinned = p whether
\* the note was pinned or not; the same write applied again to the note it
\* left gives that note again; and after the store writes of two
\* overlapping pin toggles with the same p the note has pinned = p
SetNotFlip ==
    [][/\ \A r \in Reqs : PinWrites(r) =>
            LET n == nid[r]
                p == body[r].pinned
                once == firestore_update(store[n], toggle_pin_dict(p))
            IN /\ store'[n].pinned = p
               /\ store'[n] = once
               /\ firestore_update(once, toggle_pin_dict(p)) = once
               /\ (store[n].pinned = p => store'[n] = store[n])
       /\ \A r, q \in Reqs : PinnedTwice(r, q)' =>
            /\ Exists(store', nid'[r])
            /\ store'[nid'[r]].pinned = updates'[r].pinned]_vars

\* two overlapping requests to pin a note have both written, the second on
\* the note the first had pinned already, and the note is pinned; neither
\* has read back yet
SetNotFlipSeen ==
    \E r, q \in Reqs :
        /\ PinnedTwice(r, q)
        /\ updates[r] = [pinned |-> TRUE]
        /\ store[nid[r]].pinned

\* a note that was pinned has been unpinned by toggle_pin(note_id, false),
\* answered 200 with pinned = false
UnpinnedSeen ==
    \E r \in Reqs :
        /\ pc[r] = "done" /\ op[r] = "pin" /\ resp[r].status = 200
        /\ ~resp[r].note.pinned
        /\ Exists(store, nid[r]) /\ ~store[nid[r]].pinned

\* ---------------------------------------------------- no resurrection claim
\* the step in which update or toggle_pin request r, past its get_owned
\* check, makes its store write
WritesNote(r) ==
    /\ \/ op[r] = "update" /\ pc[r] = "stamped"
       \/ op[r] = "pin" /\ pc[r] = "owned"
    /\ pc'[r] # pc[r]

\* C23: a note that has been deleted is absent after every step, whatever
\* request takes it; in particular the store write of an update or a pin
\* toggle that passed get_owned before the delete finds no document, makes
\* none and changes no note (the request ends in 500)
NoResurrection ==
    [][\A n \in NoteIds :
         /\ Deleted(n) => (~Exists(store', n) /\ Deleted(n)')
         /\ \A r \in Reqs : (WritesNote(r) /\ nid[r] = n /\ ~Exists(store, n)) =>
               /\ store' = store
               /\ pc'[r] = "done"
               /\ resp'[r] = InternalServerError
         /\ (~Exists(store, n) /\ Exists(store', n)) =>
               \E r \in Reqs : op[r] = "create" /\ pc[r] = "stamped" /\ nid[r] = n
                                /\ pc'[r] = "written"]_vars

\* an update of note n passed get_owned, a delete of n by its owner then
\* completed (204), and the update's store write has ended in 500: no
\* document n is stored
StaleUpdateSeen ==
    \E r, q \in Reqs :
        /\ op[r] = "update" /\ pc[r] = "done" /\ resp[r] = InternalServerError
        /\ op[q] = "delete" /\ pc[q] = "done" /\ resp[q] = NoContent
        /\ nid[r] = nid[q] /\ caller[r] = caller[q]
        /\ Deleted(nid[r])

\* the same for a pin toggle overtaken by the delete
StalePinSeen ==
    \E r, q \in Reqs :
        /\ op[r] = "pin" /\ pc[r] = "done" /\ resp[r] = InternalServerError
        /\ op[q] = "delete" /\ pc[q] = "done" /\ resp[q] = NoContent
        /\ nid[r] = nid[q]
        /\ Deleted(nid[r])

\* ------------------------------------------------------- page cover claim
\* the items of pages 1..k of the query q of owner u, one after the other
RECURSIVE Pages(_, _, _, _)
Pages(st, u, q, k) ==
    IF k = 0 THEN <<>>
    ELSE Pages(st, u, q, k - 1) \o list_notes(st, u, [q EXCEPT !.page = k]).items

\* ceil(total / page_size)
PageCount(total, page_size) == (total + page_size - 1) \div page_size

\* C24: whatever page a list request asks for, the pages 1, 2, ... up to
\* ceil(total / page_size) of its query on the store it read hold, taken
\* one after the other, each note the owner, pinned and search filters
\* select once and no other note, and no item sorts before the one ahead of
\* it
PagesCoverOnce ==
    [][\A r \in Reqs : Lists(r) =>
         \A all \in {Pages(store, caller'[r], body'[r],
                            PageCount(updates'[r].total, body'[r].page_size))} :
            /\ Len(all) = updates'[r].total
            /\ \A i, j \in 1..Len(all) : i # j => all[i].id # all[j].id
            /\ {all[i].id : i \in 1..Len(all)} =
                  {n \in DOMAIN store : Selected(store, n, caller'[r], body'[r])}
            /\ \A i \in 1..Len(all) : all[i] = doc_to_noteout(store, all[i].id)
            /\ \A i \in 1..(Len(all) - 1) :
                  ~sorts_before(body'[r].sort, all[i + 1], all[i])
            /\ list_notes(store, caller'[r],
                          [body'[r] EXCEPT !.page =
                              PageCount(updates'[r].total, body'[r].page_size) + 1]).items = <<>>]_vars

\* three notes of u1 with one updated_at have been listed in pages of one:
\* the three pages hold the three notes, once each
PagesCoverOnceSeen ==
    \E r \in Reqs :
        /\ Listed(r) /\ body[r].page_size = 1 /\ body[r].page = 2
        /\ "pinned" \notin DOMAIN body[r] /\ "search" \notin DOMAIN body[r]
        /\ updates[r].total = 3
        /\ \A n \in 1..3 : store[n].updated_at = 1 /\ store[n].owner_id = "u1"
        /\ Len(updates[r].items) = 1
        /\ {Pages(store, caller[r], body[r], 3)[i].id : i \in 1..3} = {1, 2, 3}
        /\ Pages(store, caller[r], body[r], 3)[2] = updates[r].items[1]

\* three notes in pages of two: the second page holds the third note alone
LastPageCoverSeen ==
    \E r \in Reqs :
        /\ Listed(r) /\ body[r].page_size = 2 /\ body[r].page = 1
        /\ updates[r].total = 3
        /\ PageCount(updates[r].total, body[r].page_size) = 2
        /\ Len(Pages(store, caller[r], body[r], 2)) = 3

====
